---- MODULE Spec2Model ----
(***************************************************************************)
(* Model of the lexer of daxmictar/plain (src/src/lexer.rs, token.rs).     *)
(*                                                                         *)
(* A character is a one-character string; NUL stands for '\0' and U00E9    *)
(* for a two-byte UTF-8 character.  The input is a sequence of characters. *)
(* String::len() counts bytes, chars().nth() counts characters and         *)
(* input[a..b] slices by bytes: the three are modelled separately.         *)
(***************************************************************************)
EXTENDS Integers, Sequences, FiniteSets

VARIABLES input, lexer, current, character, ret, tokens, last

vars == <<input, lexer, current, character, ret, tokens, last>>

----------------------------------------------------------------------------
(* Bounds *)

MaxLen == 3

MaxPunctLen == 2

----------------------------------------------------------------------------
(* Characters *)

NUL == "NUL"

U00E9 == "U+00E9"

NoChar == "None"

AsciiLower ==
  {"a","b","c","d","e","f","g","h","i","j","k","l","m",
   "n","o","p","q","r","s","t","u","v","w","x","y","z"}

AsciiUpper ==
  {"A","B","C","D","E","F","G","H","I","J","K","L","M",
   "N","O","P","Q","R","S","T","U","V","W","X","Y","Z"}

AsciiDigit == {"0","1","2","3","4","5","6","7","8","9"}

IsAsciiAlphabetic(c) == c \in AsciiLower \cup AsciiUpper

IsAsciiDigit(c) == c \in AsciiDigit

Whitespace == {" ", "\t", "\n", "\r"}

PunctChars ==
  {"(", ")", "{", "}", "[", "]", "*", ">", "<", "-", "%", "+", "/",
   "&", "@", "^", "$", "#", "~", ";", ","}

Width(c) == IF c = U00E9 THEN 2 ELSE 1

Alphabet == {"i", "f", "x", "5", "=", "!", ";", "[", " ", "\n", "?", "_", NUL, U00E9}

SeqsUpTo(S, n) == UNION {[1..k -> S] : k \in 0..n}

ElseIfText == <<"e","l","s","e"," ","i","f">>

Inputs == SeqsUpTo(Alphabet, MaxLen) \cup SeqsUpTo(PunctChars, MaxPunctLen) \cup {ElseIfText}

----------------------------------------------------------------------------
(* Token kinds and the two dispatch tables *)

PunctKindSwapped(c) ==
  CASE c = "(" -> "LeftParen"
    [] c = ")" -> "RightParen"
    [] c = "{" -> "LeftBrace"
    [] c = "}" -> "RightBrace"
    [] c = "[" -> "RightBracket"
    [] c = "]" -> "LeftBracket"
    [] c = "*" -> "Asterisk"
    [] c = ">" -> "GreaterThan"
    [] c = "<" -> "LessThan"
    [] c = "-" -> "Minus"
    [] c = "%" -> "Percent"
    [] c = "+" -> "Plus"
    [] c = "/" -> "Slash"
    [] c = "&" -> "Ampersand"
    [] c = "@" -> "Asperand"
    [] c = "^" -> "Carrot"
    [] c = "$" -> "Dollar"
    [] c = "#" -> "Pound"
    [] c = "~" -> "Tilde"
    [] c = ";" -> "Semicolon"
    [] c = "," -> "Comma"

PunctKind(c) ==
  CASE c = "(" -> "LeftParen"
    [] c = ")" -> "RightParen"
    [] c = "{" -> "LeftBrace"
    [] c = "}" -> "RightBrace"
    [] c = "[" -> "LeftBracket"
    [] c = "]" -> "RightBracket"
    [] c = "*" -> "Asterisk"
    [] c = ">" -> "GreaterThan"
    [] c = "<" -> "LessThan"
    [] c = "-" -> "Minus"
    [] c = "%" -> "Percent"
    [] c = "+" -> "Plus"
    [] c = "/" -> "Slash"
    [] c = "&" -> "Ampersand"
    [] c = "@" -> "Asperand"
    [] c = "^" -> "Carrot"
    [] c = "$" -> "Dollar"
    [] c = "#" -> "Pound"
    [] c = "~" -> "Tilde"
    [] c = ";" -> "Semicolon"
    [] c = "," -> "Comma"

keyword(keyword_str) ==
  CASE keyword_str = <<"f","u","n","c">> -> "Function"
    [] keyword_str = <<"l","e","t">> -> "Let"
    [] keyword_str = <<"t","r","u","e">> -> "True"
    [] keyword_str = <<"f","a","l","s","e">> -> "False"
    [] keyword_str = <<"i","f">> -> "If"
    [] keyword_str = <<"e","l","s","e">> -> "Else"
    [] keyword_str = <<"e","l","s","e"," ","i","f">> -> "ElseIf"
    [] keyword_str = <<"r","e","t","u","r","n">> -> "Return"
    [] OTHER -> "Identifier"

----------------------------------------------------------------------------
(* Return values of tokenize *)

Token(token_type, literal) == [tag |-> "Some", kind |-> token_type, literal |-> literal]

None == [tag |-> "None", kind |-> "None", literal |-> <<>>]

Panicked == [tag |-> "Panic", kind |-> "None", literal |-> <<>>]

NoCall == [tag |-> "NoCall", kind |-> "None", literal |-> <<>>]

----------------------------------------------------------------------------
(* Buffer access *)

RECURSIVE ByteOffset(_)
ByteOffset(k) == IF k = 0 THEN 0 ELSE ByteOffset(k - 1) + Width(input[k])

ByteLen == ByteOffset(Len(input))

CharsNth(n) == IF n < Len(input) THEN input[n + 1] ELSE NoChar

IsCharBoundary(b) == \E k \in 0..Len(input) : ByteOffset(k) = b

CharIndexOf(b) == CHOOSE k \in 0..Len(input) : ByteOffset(k) = b

Slice(start, end) == SubSeq(input, CharIndexOf(start) + 1, CharIndexOf(end))

SliceOk(start, end) == start <= end /\ IsCharBoundary(start) /\ IsCharBoundary(end)

----------------------------------------------------------------------------
(* Lexer methods, on a record l = [current, character] *)

NoIndex == <<>>

SomeIndex(n) == <<n>>

current_char(l) == CharsNth(l.current)

nextStrict(l) == IF l.current + 1 >= ByteLen THEN NoIndex ELSE SomeIndex(l.current + 1)

next(l) == IF l.current + 1 > ByteLen THEN NoIndex ELSE SomeIndex(l.current + 1)

next_char(l) == CharsNth(l.current + 1)

advanceOffByOne(l) ==
  LET new_current == l.current + 1 IN
  IF new_current > ByteLen + 1
    THEN l
    ELSE [current |-> new_current,
          character |-> IF CharsNth(new_current) # NoChar
                          THEN CharsNth(new_current) ELSE NUL]

advanceWrap(l) ==
  LET new_current == IF l.current + 1 > ByteLen THEN 0 ELSE l.current + 1 IN
  [current |-> new_current,
   character |-> IF CharsNth(new_current) # NoChar
                   THEN CharsNth(new_current) ELSE NUL]

advanceNoReturn(l) ==
  LET new_current == l.current + 1 IN
  [current |-> new_current,
   character |-> IF CharsNth(new_current) # NoChar
                   THEN CharsNth(new_current) ELSE NUL]

advance(l) ==
  LET new_current == l.current + 1 IN
  IF new_current > ByteLen
    THEN l
    ELSE [current |-> new_current,
          character |-> IF CharsNth(new_current) # NoChar
                          THEN CharsNth(new_current) ELSE NUL]

RECURSIVE skip_whitespace(_)
skip_whitespace(l) ==
  LET c == current_char(l) IN
  IF c = NoChar THEN [panic |-> TRUE, l |-> l]
  ELSE IF c \in Whitespace THEN skip_whitespace(advance(l))
  ELSE [panic |-> FALSE, l |-> l]

RECURSIVE identifier_loop(_)
identifier_loop(l) ==
  IF IsAsciiAlphabetic(l.character) THEN identifier_loop(advance(l)) ELSE l

read_identifier(l) ==
  LET start == l.current
      m == identifier_loop(l)
      end == m.current
      ok == SliceOk(start, end)
  IN [panic |-> ~ok, l |-> m, literal |-> IF ok THEN Slice(start, end) ELSE <<>>]

RECURSIVE number_loop(_)
number_loop(l) ==
  IF IsAsciiDigit(l.character) THEN number_loop(advance(l)) ELSE l

read_number(l) ==
  LET start == l.current
      m == number_loop(l)
      end == m.current
      ok == SliceOk(start, end)
  IN [panic |-> ~ok, l |-> m, literal |-> IF ok THEN Slice(start, end) ELSE <<>>]

Abort(l) == [panic |-> TRUE, l |-> l, token |-> Panicked]

Emit(l, token_type, literal) ==
  [panic |-> FALSE, l |-> advance(l), token |-> Token(token_type, literal)]

lex(l0) ==
  LET sw == skip_whitespace(l0)
      l == sw.l
      c == l.character
  IN
  IF sw.panic THEN Abort(l)
  ELSE IF c \in AsciiLower \cup AsciiUpper THEN Abort(l)
  ELSE IF c \in PunctChars THEN Emit(l, PunctKind(c), <<c>>)
  ELSE IF c = "=" THEN Abort(l)
  ELSE IF c = "!" THEN Abort(l)
  ELSE IF c = NUL THEN Emit(l, "EOF", <<c>>)
  ELSE IF IsAsciiAlphabetic(c)
    THEN LET r == read_identifier(l) IN
         IF r.panic THEN Abort(r.l) ELSE Emit(r.l, keyword(r.literal), r.literal)
  ELSE IF IsAsciiDigit(c)
    THEN LET r == read_number(l) IN
         IF r.panic THEN Abort(r.l) ELSE Emit(r.l, "Number", r.literal)
  ELSE Emit(l, "Illegal", <<c>>)

----------------------------------------------------------------------------
(* State machine *)

Self == [current |-> current, character |-> character]

Init ==
  /\ input \in Inputs
  /\ lexer = "unbuilt"
  /\ current = 0
  /\ character = NUL
  /\ ret = NoCall
  /\ tokens = <<>>
  /\ last = "none"

New ==
  /\ lexer = "unbuilt"
  /\ IF CharsNth(0) # NoChar
       THEN /\ lexer' = "ready"
            /\ current' = 0
            /\ character' = CharsNth(0)
       ELSE /\ lexer' = "none"
            /\ UNCHANGED <<current, character>>
  /\ last' = "new"
  /\ UNCHANGED <<input, ret, tokens>>

Tokenize ==
  /\ lexer = "ready"
  /\ last' = "tokenize"
  /\ IF character = NUL
       THEN /\ ret' = None
            /\ UNCHANGED <<lexer, current, character, tokens>>
       ELSE LET r == lex(Self) IN
            /\ current' = r.l.current
            /\ character' = r.l.character
            /\ ret' = r.token
            /\ lexer' = IF r.panic THEN "panicked" ELSE "ready"
            /\ tokens' = IF r.panic THEN tokens ELSE Append(tokens, r.token)
  /\ UNCHANGED input

Advance(verbose) ==
  /\ lexer = "ready"
  /\ current' = advance(Self).current
  /\ character' = advance(Self).character
  /\ last' = IF verbose THEN "advance(true)" ELSE "advance(false)"
  /\ UNCHANGED <<input, lexer, ret, tokens>>

Next == New \/ Tokenize

Spec == Init /\ [][Next]_vars

NextAdv == New \/ Tokenize \/ \E verbose \in BOOLEAN : Advance(verbose)

SpecAdv == Init /\ [][NextAdv]_vars

----------------------------------------------------------------------------
(* Vocabulary of the properties, computed from the input alone *)

IsEOF(r) == r.tag = "None" \/ (r.tag = "Some" /\ r.kind = "EOF")

TokenizeStep == lexer = "ready" /\ last' = "tokenize"

AdvanceCalls == {"advance(true)", "advance(false)"}

AdvanceStep == lexer = "ready" /\ last' \in AdvanceCalls

RECURSIVE FirstNonWs(_)
FirstNonWs(p) ==
  IF p < Len(input) /\ input[p + 1] \in Whitespace THEN FirstNonWs(p + 1) ELSE p

RECURSIVE RunEnd(_, _)
RunEnd(p, S) == IF p < Len(input) /\ input[p + 1] \in S THEN RunEnd(p + 1, S) ELSE p

Run(p, S) == SubSeq(input, p + 1, RunEnd(p, S))

IdentStart == AsciiLower \cup AsciiUpper \cup {"_"}

IdentChars == IdentStart \cup AsciiDigit

Cursor == FirstNonWs(current)

AtCursor == IF Cursor < Len(input) THEN input[Cursor + 1] ELSE NoChar

RECURSIVE Concat(_)
Concat(ts) == IF ts = <<>> THEN <<>> ELSE Head(ts).literal \o Concat(Tail(ts))

NotWhitespace(c) == c \notin Whitespace

NotEOFToken(t) == t.kind # "EOF"

SpecKeywordKind(s) ==
  CASE s = <<"l","e","t">> -> "Let"
    [] s = <<"f","u","n","c">> -> "Function"
    [] s = <<"t","r","u","e">> -> "True"
    [] s = <<"f","a","l","s","e">> -> "False"
    [] s = <<"i","f">> -> "If"
    [] s = <<"e","l","s","e">> -> "Else"
    [] s = <<"r","e","t","u","r","n">> -> "Return"
    [] OTHER -> "Identifier"

SpecPunctKind ==
  [c \in PunctChars |->
     CASE c = "(" -> "LeftParen"   [] c = ")" -> "RightParen"
       [] c = "{" -> "LeftBrace"   [] c = "}" -> "RightBrace"
       [] c = "[" -> "LeftBracket" [] c = "]" -> "RightBracket"
       [] c = "," -> "Comma"       [] c = ";" -> "Semicolon"
       [] c = "&" -> "Ampersand"   [] c = "@" -> "Asperand"
       [] c = "^" -> "Carrot"      [] c = "$" -> "Dollar"
       [] c = "#" -> "Pound"       [] c = "~" -> "Tilde"
       [] c = "+" -> "Plus"        [] c = "-" -> "Minus"
       [] c = "*" -> "Asterisk"    [] c = "/" -> "Slash"
       [] c = "%" -> "Percent"     [] c = "<" -> "LessThan"
       [] c = ">" -> "GreaterThan"]

----------------------------------------------------------------------------
(* C1: once a tokenize call has returned EOF (None or an EOF token), every *)
(* later call returns EOF, does not fail and leaves the cursor unchanged.  *)
C1_EOFIsFixedPoint ==
  [][(TokenizeStep /\ IsEOF(ret))
       => (IsEOF(ret') /\ lexer' = "ready" /\ current' = current)]_vars

(* C2: in every reachable state of every input, no tokenize call has       *)
(* aborted: each call completed and returned a token.                      *)
C2_NeverPanics == lexer # "panicked" /\ ret.tag # "Panic"

(* C3: a character at the cursor (after whitespace) that is no letter,     *)
(* underscore, digit, '=', '!' or punctuation yields Illegal carrying that *)
(* one character, and the cursor ends exactly one past it.                 *)
C3_IllegalConsumesOne ==
  [][(/\ TokenizeStep
      /\ AtCursor # NoChar
      /\ AtCursor \notin IdentChars \cup {"=", "!"} \cup PunctChars)
       => (/\ ret' = Token("Illegal", <<AtCursor>>)
           /\ lexer' = "ready"
           /\ current' = Cursor + 1)]_vars

(* C4: when the lexer has been drained to EOF, the literals of the emitted *)
(* tokens, concatenated in order, are the input without its whitespace.    *)
C4_LiteralsReconstructInput ==
  (last = "tokenize" /\ IsEOF(ret))
    => Concat(SelectSeq(tokens, NotEOFToken)) = SelectSeq(input, NotWhitespace)

(* C5: '=' or '!' at the cursor followed by '=' yields one Equals or       *)
(* NotEquals token of two characters; otherwise one Assignment or Bang     *)
(* token of one character.                                                 *)
C5_TwoCharOperators ==
  [][(TokenizeStep /\ AtCursor \in {"=", "!"})
       => LET c == AtCursor
              two == Cursor + 1 < Len(input) /\ input[Cursor + 2] = "="
          IN /\ lexer' = "ready"
             /\ ret' = IF two
                         THEN Token(IF c = "=" THEN "Equals" ELSE "NotEquals", <<c, "=">>)
                         ELSE Token(IF c = "=" THEN "Assignment" ELSE "Bang", <<c>>)
             /\ current' = IF two THEN Cursor + 2 ELSE Cursor + 1]_vars

(* C6: a letter or underscore at the cursor makes the call consume the     *)
(* maximal run of letters, digits and underscores as one token, so a       *)
(* keyword that is a proper prefix of the run is not split off.            *)
C6_MaximalMunch ==
  [][(TokenizeStep /\ AtCursor \in IdentStart)
       => (/\ lexer' = "ready"
           /\ ret'.tag = "Some"
           /\ ret'.literal = Run(Cursor, IdentChars)
           /\ current' = RunEnd(Cursor, IdentChars))]_vars

(* C7: an identifier-shaped run that is exactly a keyword yields that      *)
(* keyword's token, any other run yields Identifier, both carrying the run *)
(* as literal, and the next call starts at the character after the run.    *)
C7_KeywordOrIdentifier ==
  [][(TokenizeStep /\ AtCursor \in IdentStart)
       => (/\ ret' = Token(SpecKeywordKind(Run(Cursor, IdentChars)), Run(Cursor, IdentChars))
           /\ character' = CharsNth(RunEnd(Cursor, IdentChars)))]_vars

(* C8: a digit at the cursor yields one Number token whose literal is the  *)
(* maximal digit run, and the cursor is left on the first character after  *)
(* the run.                                                                *)
C8_NumberLeavesCursorAfterRun ==
  [][(TokenizeStep /\ AtCursor \in AsciiDigit)
       => (/\ ret' = Token("Number", Run(Cursor, AsciiDigit))
           /\ lexer' = "ready"
           /\ current' = RunEnd(Cursor, AsciiDigit))]_vars

(* C9: a punctuation/operator character at the cursor yields exactly one   *)
(* token of the corresponding kind with that character as literal and      *)
(* advances the cursor by one; a string made of such characters yields one *)
(* token per character, in input order.                                    *)
C9_PunctuationOneToken ==
  /\ [][(TokenizeStep /\ character \in PunctChars)
          => (/\ ret' = Token(SpecPunctKind[character], <<character>>)
              /\ lexer' = "ready"
              /\ current' = current + 1
              /\ tokens' = Append(tokens, ret'))]_vars
  /\ []((lexer = "ready" /\ \A i \in 1..Len(input) : input[i] \in PunctChars)
          => (/\ Len(tokens) = current
              /\ \A i \in 1..Len(tokens) :
                   tokens[i] = Token(SpecPunctKind[input[i]], <<input[i]>>)))

C9_Witness ==
  /\ lexer = "ready"
  /\ Len(input) = 2
  /\ input[1] \in PunctChars /\ input[2] \in PunctChars /\ input[1] # input[2]
  /\ last = "tokenize"
  /\ current = 2
  /\ Len(tokens) = 2
  /\ ret = Token(SpecPunctKind[input[2]], <<input[2]>>)

(* C10: constructing a lexer never fails, also over the empty string, and  *)
(* the first tokenize call on the empty input returns EOF.                 *)
C10_ConstructionNeverFails ==
  /\ lexer # "none"
  /\ (input = <<>> /\ last # "none") => lexer = "ready"
  /\ (input = <<>> /\ last = "tokenize") => IsEOF(ret)

(* C11: a tokenize call skips the whitespace at the cursor without         *)
(* emitting it: it ends at or after the first non-whitespace character, no *)
(* returned literal holds a whitespace character, and when the whitespace  *)
(* runs to the end of the buffer the call returns EOF.                     *)
C11_WhitespaceSkipped ==
  [][TokenizeStep
       => (/\ current' >= Cursor
           /\ \A i \in 1..Len(ret'.literal) : ret'.literal[i] \notin Whitespace
           /\ (Cursor = Len(input) => IsEOF(ret')))]_vars

(* C12: in every reachable state, after any sequence of advance and        *)
(* tokenize calls, the cursor is at most the length of the buffer          *)
(* (input.len(), the length in bytes).                                     *)
C12_CursorWithinBuffer == current <= ByteLen

C12_Witness ==
  /\ lexer = "ready"
  /\ last \in AdvanceCalls
  /\ Len(tokens) = 1
  /\ current = ByteLen
  /\ ByteLen > Len(input)

(* C13: every tokenize call either returns EOF or returns a token and      *)
(* strictly increases the cursor, so EOF is reached after at most          *)
(* (input length) non-EOF tokens.                                          *)
C13_EveryCallProgressesOrEnds ==
  [][TokenizeStep
       => (/\ IsEOF(ret') \/ (ret'.tag = "Some" /\ current' > current)
           /\ Len(SelectSeq(tokens', NotEOFToken)) <= Len(input))]_vars

(* C14: the cursor never decreases and the input is never modified, over   *)
(* any sequence of advance and tokenize calls.                             *)
C14_CursorMonotonic == [][current' >= current /\ input' = input]_vars

C14_Witness ==
  /\ lexer = "ready"
  /\ last \in AdvanceCalls
  /\ Len(tokens) = 1
  /\ current = 3

(* C15 as stated: a fresh lexer over a non-empty input has cursor 0, the   *)
(* first character and next() = 1; each advance made below the buffer      *)
(* length adds one to the cursor, sets the character to the one at the new *)
(* cursor, and next() is then the new cursor plus one.                     *)
C15_Original ==
  /\ []((lexer = "ready" /\ last = "new")
          => (current = 0 /\ character = input[1] /\ next(Self) = SomeIndex(1)))
  /\ [][(AdvanceStep /\ current < ByteLen)
          => (/\ current' = current + 1
              /\ character' = IF CharsNth(current') # NoChar THEN CharsNth(current') ELSE NUL
              /\ next(Self)' = SomeIndex(current' + 1))]_vars

(* C15 as amended: as above, but next() is the new cursor plus one only    *)
(* while the new cursor is below the buffer length, and None once the      *)
(* cursor has reached it; the character is '\0' when no character is at    *)
(* the new cursor.                                                         *)
C15_FreshAndAdvance ==
  /\ []((lexer = "ready" /\ last = "new")
          => (current = 0 /\ character = input[1] /\ next(Self) = SomeIndex(1)))
  /\ [][(AdvanceStep /\ current < ByteLen)
          => (/\ current' = current + 1
              /\ character' = IF CharsNth(current') # NoChar THEN CharsNth(current') ELSE NUL
              /\ next(Self)' = IF current' < ByteLen THEN SomeIndex(current' + 1) ELSE NoIndex)]_vars

C15_Witness ==
  /\ lexer = "ready"
  /\ last \in AdvanceCalls
  /\ ret = NoCall
  /\ Len(input) = 3
  /\ current = 1
  /\ character = input[2]
  /\ next(Self) = SomeIndex(2)

(* C16: whenever a lexer exists, the cached character is the character of  *)
(* the input at index current, or '\0' when current equals the buffer      *)
(* length.                                                                 *)
C16_CharacterInSync ==
  lexer = "ready"
    => character = IF current = ByteLen THEN NUL ELSE CharsNth(current)

(* C17: a tokenize call returns its end-of-stream result (None or an EOF   *)
(* token) only when no character is left at the cursor, so that an         *)
(* embedded NUL does not end the stream.                                   *)
C17_EOFOnlyAtEnd ==
  [][(TokenizeStep /\ IsEOF(ret')) => Cursor >= Len(input)]_vars

(* C18: no emitted token is ElseIf, and the text "else if" lexes as Else   *)
(* followed by If.                                                         *)
C18_NoElseIf ==
  /\ \A i \in 1..Len(tokens) : tokens[i].kind # "ElseIf"
  /\ (input = ElseIfText /\ last = "tokenize")
       => (/\ lexer = "ready"
           /\ Len(tokens) >= 1
           /\ tokens[1] = Token("Else", <<"e","l","s","e">>)
           /\ Len(tokens) >= 2 => tokens[2] = Token("If", <<"i","f">>))

(* C19: advance called with the cursor at the buffer length changes        *)
(* neither the cursor nor the cached character, which stays '\0', whether  *)
(* verbose is true or false.                                               *)
C19_AdvanceAtEndIsNoOp ==
  [][(AdvanceStep /\ current = ByteLen)
       => (current' = current /\ character' = character /\ character' = NUL)]_vars

C19_Witness ==
  /\ lexer = "ready"
  /\ last = "advance(true)"
  /\ Len(input) = 1
  /\ input[1] \in PunctChars
  /\ tokens = <<Token(SpecPunctKind[input[1]], <<input[1]>>)>>
  /\ current = ByteLen
  /\ character = NUL

====
